---- MODULE Spec2Model ----
(***************************************************************************)
(* Lead engagement lifecycle and call-scheduling engine of the CRM server. *)
(* The store is MongoDB accessed through Mongoose; every request handler   *)
(* is an async function whose awaits are the points at which handlers of   *)
(* other requests may interleave.                                          *)
(***************************************************************************)
EXTENDS Integers, FiniteSets, Sequences, TLC

\* ---------------------------------------------------------------- bounds
MaxLeads == 1
MaxSchedules == 2
MaxCustomers == 2
MaxSessions == 3
MaxTime == 2
MaxHistory == 2

\* ------------------------------------------------------ program constants
DefaultDuration == 30
MinDuration == 15
MaxDuration == 480
DuplicateKey == 11000

\* ------------------------------------------------------------ value sets
Procs == {1, 2}
Users == {"ann", "bob", "root"}
NoUser == "nobody"

role(u) == IF u = "root" THEN "admin" ELSE "user"

validStatuses_withConverted == {"New", "Qualified", "Negotiation", "Closed", "Lost", "Converted"}

validStatuses == {"New", "Qualified", "Negotiation", "Closed", "Lost"}
scheduleStatuses == {"Scheduled", "Completed", "Cancelled", "No Show"}

\* Request-side date strings and the instants (day numbers) they denote.
\* "garbage" is not a date: new Date("garbage") is an Invalid Date.
\* The instant of an Invalid Date is written 0 (NaN in the source).
DateStrings == {"2024-06-01", "2024-06-01T00:00:00.000Z", "2024-06-02", "garbage"}

NewDate(s) ==
  CASE s = "2024-06-01" -> 20240601
    [] s = "2024-06-01T00:00:00.000Z" -> 20240601
    [] s = "2024-06-02" -> 20240602
    [] OTHER -> 0

isNaN(d) == d = 0

\* mongoose.Types.ObjectId.isValid: request ids are numbers, 0 standing for
\* a string that is not an ObjectId.
IsValidObjectId(id) == id > 0

\* ------------------------------------------------------------------ state
VARIABLES
  cfg,            \* which of the repository's schema/driver variants runs
  leads,          \* leads collection: id -> document
  nextLeadId,     \* next fresh lead _id
  callSchedules,  \* callSchedules collection: set of documents
  nextScheduleId, \* next fresh call schedule _id
  customers,      \* customers collection: set of documents
  sessions,       \* sessions collection: set of documents
  nextSessionId,  \* next fresh session _id
  now,            \* the clock read by new Date()
  pc,             \* per request slot: the await the handler is suspended at
  req,            \* per request slot: the request being served
  doc,            \* per request slot: the document the handler has loaded
  resp            \* per request slot: the last response sent

vars == <<cfg, leads, nextLeadId, callSchedules, nextScheduleId, customers,
          sessions, nextSessionId, now, pc, req, doc, resp>>

sessionStore == <<sessions, nextSessionId, now>>

store == <<leads, nextLeadId, callSchedules, nextScheduleId, customers>>

\* ------------------------------------------------------------- documents
\* The call-tracking paths of leadSchema with their defaults: lastContacted,
\* callCompletedAt and callCompletedBy are optional (the empty set is null),
\* callHistory is the array of call outcomes, oldest first.
NoLead == [state |-> "none", isActive |-> FALSE, status |-> "New", createdBy |-> NoUser,
           lastContacted |-> {}, callCompleted |-> FALSE, callCompletedAt |-> {},
           callCompletedBy |-> {}, callHistory |-> <<>>]
GoneLead == [NoLead EXCEPT !.state = "deleted"]

\* The value of a path a document does not have (undefined in the source).
NoEmail == ""

\* was: the status the lead had when the request arrived (kept for the
\* properties only; no handler reads it).  at: the instant the handler read
\* from the clock when the request arrived.
NoReq == [op |-> "none", user |-> NoUser, leadId |-> 0, id |-> 0,
          scheduledDate |-> "", scheduledTime |-> "", duration |-> 0, status |-> "",
          was |-> "", at |-> 0]

NoResp == [op |-> "none", code |-> 0, message |-> "", error |-> "",
           existingCall |-> {}, callSchedule |-> {}, lead |-> {}]

Response(op, code, message) ==
  [op |-> op, code |-> code, message |-> message, error |-> "",
   existingCall |-> {}, callSchedule |-> {}, lead |-> {}]

LeadExists(id) == id \in 1..MaxLeads /\ leads[id].state = "present"

\* The lead as a success response carries it.
LeadView(id, l) == [id |-> id, status |-> l.status, isActive |-> l.isActive]

\* ------------------------------------------------------- response plumbing
Respond(p, r) ==
  /\ pc' = [pc EXCEPT ![p] = "idle"]
  /\ resp' = [resp EXCEPT ![p] = r]
  /\ doc' = [doc EXCEPT ![p] = {}]
  /\ req' = [req EXCEPT ![p] = NoReq]

Accept(p, r, next) ==
  /\ pc' = [pc EXCEPT ![p] = next]
  /\ req' = [req EXCEPT ![p] = r]
  /\ resp' = [resp EXCEPT ![p] = NoResp]

\* ------------------------------------------------------------ Init
Init ==
  /\ cfg \in [uniqueIndex : BOOLEAN, strictQuery : BOOLEAN, autoConvert : BOOLEAN,
              callableObjectId : BOOLEAN]
  /\ leads = [i \in 1..MaxLeads |-> NoLead]
  /\ nextLeadId = 1
  /\ callSchedules = {}
  /\ nextScheduleId = 1
  /\ customers = {}
  /\ sessions = {}
  /\ nextSessionId = 1
  /\ now = 0
  /\ pc = [p \in Procs |-> "idle"]
  /\ req = [p \in Procs |-> NoReq]
  /\ doc = [p \in Procs |-> {}]
  /\ resp = [p \in Procs |-> NoResp]

\* ------------------------------------------------------------ uploadLeads
\* One spreadsheet row per upload.  The row's status is kept when it is one
\* of validStatuses and replaced by "New" otherwise; name validation is not
\* modelled (the row carries a valid name).
rowStatus(s) == IF s \in validStatuses THEN s ELSE "New"

\* leadSchema.status enum, checked by save(), insertMany() and runValidators
ValidLead(l) == l.status \in validStatuses

uploadLeads(userId, status) ==
  /\ nextLeadId <= MaxLeads
  /\ LET lead == [NoLead EXCEPT !.state = "present", !.isActive = TRUE,
                               !.status = rowStatus(status), !.createdBy = userId]
     IN
     IF ValidLead(lead)
     THEN /\ leads' = [leads EXCEPT ![nextLeadId] = lead]
          /\ nextLeadId' = nextLeadId + 1
     ELSE UNCHANGED <<leads, nextLeadId>>
  /\ UNCHANGED <<cfg, sessionStore, callSchedules, nextScheduleId, customers, pc, req, doc, resp>>

\* ----------------------------------------------------- createCallSchedule
existingCallQuery_anyStatus(b, leadId, date, time) ==
  /\ b.leadId = leadId
  /\ b.scheduledDate = date
  /\ b.scheduledTime = time
  /\ cfg.strictQuery

\* The filter of the conflict pre-check.  CallSchedule documents have no
\* isActive path: with strictQuery the path is stripped from the filter,
\* without it the filter reaches MongoDB and matches no document.
existingCallQuery(b, leadId, date, time) ==
  /\ b.leadId = leadId
  /\ b.scheduledDate = date
  /\ b.scheduledTime = time
  /\ b.status \in {"Scheduled", "Completed"}
  /\ cfg.strictQuery

NewCallSchedule_defaultDuration(id, leadId, userId, scheduledDate, scheduledTime, duration) ==
  [id |-> id, leadId |-> leadId, scheduledBy |-> userId,
   scheduledDate |-> NewDate(scheduledDate), scheduledTime |-> scheduledTime,
   duration |-> DefaultDuration,
   status |-> "Scheduled", reminderSent |-> FALSE]

\* new CallSchedule({...}) with the schema defaults applied
NewCallSchedule(id, leadId, userId, scheduledDate, scheduledTime, duration) ==
  [id |-> id, leadId |-> leadId, scheduledBy |-> userId,
   scheduledDate |-> NewDate(scheduledDate), scheduledTime |-> scheduledTime,
   duration |-> IF duration = 0 THEN DefaultDuration ELSE duration,
   status |-> "Scheduled", reminderSent |-> FALSE]

\* unique_call_schedule: { leadId, scheduledDate, scheduledTime, status }
SameIndexKey(a, b) ==
  /\ a.leadId = b.leadId
  /\ a.scheduledDate = b.scheduledDate
  /\ a.scheduledTime = b.scheduledTime
  /\ a.status = b.status

IndexError_always(d) == DuplicateKey

\* The error code the store raises when d is written: DuplicateKey when the
\* unique index exists and another document holds d's key, 0 otherwise.
IndexError(d) ==
  IF cfg.uniqueIndex /\ \E b \in callSchedules : b.id # d.id /\ SameIndexKey(b, d)
  THEN DuplicateKey ELSE 0

\* Schema validation run by save(): required paths and the status enum.
ValidCallSchedule_never(d) == FALSE

ValidCallSchedule(d) ==
  /\ ~isNaN(d.scheduledDate)
  /\ d.scheduledTime # ""
  /\ d.status \in scheduleStatuses

\* Lead.findOne({ _id: leadId, isActive: true }) finds a document
findActiveLead_anyLead(leadId) == LeadExists(leadId)

findActiveLead(leadId) == LeadExists(leadId) /\ leads[leadId].isActive

\* Lines 9-34: ObjectId check, Lead.findOne({_id, isActive: true}), createdBy fix-up.
createCallSchedule(p, userId, leadId, scheduledDate, scheduledTime, duration) ==
  /\ pc[p] = "idle"
  /\ LET r == [NoReq EXCEPT !.op = "createCallSchedule", !.user = userId,
                            !.leadId = leadId, !.scheduledDate = scheduledDate,
                            !.scheduledTime = scheduledTime, !.duration = duration]
     IN
     IF ~IsValidObjectId(leadId)
     THEN /\ Respond(p, Response("createCallSchedule", 400, "Invalid lead ID format"))
          /\ UNCHANGED leads
     ELSE IF ~findActiveLead(leadId)
     THEN /\ Respond(p, Response("createCallSchedule", 404, "Lead not found"))
          /\ UNCHANGED leads
     ELSE /\ Accept(p, r, "cs_findOne")
          /\ leads' = IF leads[leadId].createdBy = NoUser
                       THEN [leads EXCEPT ![leadId].createdBy = userId]
                       ELSE leads
          /\ UNCHANGED doc
  /\ UNCHANGED <<cfg, sessionStore, nextLeadId, callSchedules, nextScheduleId, customers>>

\* Lines 36-55: the conflict pre-check.
createCallSchedule_findOne(p) ==
  /\ pc[p] = "cs_findOne"
  /\ LET date == NewDate(req[p].scheduledDate)
         found == {b \in callSchedules :
                    existingCallQuery(b, req[p].leadId, date, req[p].scheduledTime)}
     IN
     IF isNaN(date)
     THEN Respond(p, Response("createCallSchedule", 500, "Internal server error"))
     ELSE IF found # {}
     THEN \E existingCall \in found :
            Respond(p, [Response("createCallSchedule", 400,
                                 "A call is already scheduled for this lead at this time")
                        EXCEPT !.existingCall =
                          {[id |-> existingCall.id,
                            scheduledDate |-> existingCall.scheduledDate,
                            scheduledTime |-> existingCall.scheduledTime,
                            status |-> existingCall.status]}])
     ELSE /\ pc' = [pc EXCEPT ![p] = "cs_save"]
          /\ UNCHANGED <<resp, doc, req>>
  /\ UNCHANGED <<cfg, sessionStore, store>>

\* Lines 57-93: insert, and the translation of a duplicate-key error.
createCallSchedule_save(p) ==
  /\ pc[p] = "cs_save"
  /\ LET callSchedule == NewCallSchedule(nextScheduleId, req[p].leadId, req[p].user,
                                         req[p].scheduledDate, req[p].scheduledTime,
                                         req[p].duration)
     IN
     IF ~ValidCallSchedule(callSchedule)
     THEN /\ Respond(p, Response("createCallSchedule", 500, "Internal server error"))
          /\ UNCHANGED <<callSchedules, nextScheduleId>>
     ELSE IF IndexError(callSchedule) = DuplicateKey
     THEN /\ Respond(p, [Response("createCallSchedule", 400,
                                  "A call is already scheduled for this lead at this time")
                         EXCEPT !.error = "DUPLICATE_SCHEDULE"])
          /\ UNCHANGED <<callSchedules, nextScheduleId>>
     ELSE /\ nextScheduleId <= MaxSchedules
          /\ callSchedules' = callSchedules \cup {callSchedule}
          /\ nextScheduleId' = nextScheduleId + 1
          /\ Respond(p, [Response("createCallSchedule", 201, "Call scheduled successfully")
                         EXCEPT !.callSchedule = {callSchedule}])
  /\ UNCHANGED <<cfg, sessionStore, leads, nextLeadId, customers>>

\* ----------------------------------------------------- updateCallSchedule
OwnQuery_anyUser(b, id, userId) == b.id = id

\* The query shared by getCallSchedule, updateCallSchedule and
\* deleteCallSchedule: { _id: id } plus scheduledBy for a non-admin.
OwnQuery(b, id, userId) ==
  /\ b.id = id
  /\ (role(userId) # "admin" => b.scheduledBy = userId)

\* req.body applied to the loaded document ("" and 0 are the falsy inputs).
ApplyUpdate(d, r) ==
  [d EXCEPT !.scheduledDate = IF r.scheduledDate # "" THEN NewDate(r.scheduledDate) ELSE @,
            !.scheduledTime = IF r.scheduledTime # "" THEN r.scheduledTime ELSE @,
            !.duration = IF r.duration # 0 THEN r.duration ELSE @,
            !.status = IF r.status # "" THEN r.status ELSE @]

\* save() of a loaded document writes its modified paths onto the stored one.
MergeModified(cur, loaded, edited) ==
  [cur EXCEPT !.scheduledDate = IF edited.scheduledDate # loaded.scheduledDate
                                THEN edited.scheduledDate ELSE @,
              !.scheduledTime = IF edited.scheduledTime # loaded.scheduledTime
                                THEN edited.scheduledTime ELSE @,
              !.duration = IF edited.duration # loaded.duration THEN edited.duration ELSE @,
              !.status = IF edited.status # loaded.status THEN edited.status ELSE @]

\* Lines 249-267: CallSchedule.findOne(query).
updateCallSchedule(p, userId, id, scheduledDate, scheduledTime, duration, status) ==
  /\ pc[p] = "idle"
  /\ LET r == [NoReq EXCEPT !.op = "updateCallSchedule", !.user = userId, !.id = id,
                            !.scheduledDate = scheduledDate,
                            !.scheduledTime = scheduledTime,
                            !.duration = duration, !.status = status]
         found == {b \in callSchedules : OwnQuery(b, id, userId)}
     IN
     IF ~IsValidObjectId(id)
     THEN /\ Respond(p, Response("updateCallSchedule", 500, "Internal server error"))
     ELSE IF found = {}
     THEN /\ Respond(p, Response("updateCallSchedule", 404,
                  "Call schedule not found or you are not authorized to update it"))
     ELSE /\ Accept(p, r, "us_save")
          /\ doc' = [doc EXCEPT ![p] = found]
  /\ UNCHANGED <<cfg, sessionStore, store>>

\* Lines 269-292: assignments and callSchedule.save().
updateCallSchedule_save(p) ==
  /\ pc[p] = "us_save"
  /\ \E loaded \in doc[p] :
       LET edited == ApplyUpdate(loaded, req[p])
           stored == {b \in callSchedules : b.id = loaded.id}
           ok == [Response("updateCallSchedule", 200, "Call schedule updated successfully")
                  EXCEPT !.callSchedule = {edited}]
           err == Response("updateCallSchedule", 500, "Internal server error")
       IN
       IF ~ValidCallSchedule(edited)
       THEN Respond(p, err) /\ UNCHANGED callSchedules
       ELSE IF edited = loaded
       THEN Respond(p, ok) /\ UNCHANGED callSchedules
       ELSE IF stored = {}
       THEN Respond(p, err) /\ UNCHANGED callSchedules
       ELSE \E cur \in stored :
              LET new == MergeModified(cur, loaded, edited) IN
              IF IndexError(new) = DuplicateKey
              THEN Respond(p, err) /\ UNCHANGED callSchedules
              ELSE /\ callSchedules' = (callSchedules \ {cur}) \cup {new}
                   /\ Respond(p, ok)
  /\ UNCHANGED <<cfg, sessionStore, leads, nextLeadId, nextScheduleId, customers>>

\* ----------------------------------------------------- deleteCallSchedule
\* Lines 296-336: findOne(query) then findByIdAndDelete of the found _id.
deleteCallSchedule(p, userId, id) ==
  /\ pc[p] = "idle"
  /\ LET found == {b \in callSchedules : OwnQuery(b, id, userId)}
     IN
     /\ IF ~IsValidObjectId(id)
        THEN /\ Respond(p, Response("deleteCallSchedule", 400, "Invalid call schedule ID format"))
             /\ UNCHANGED callSchedules
        ELSE IF found = {}
        THEN /\ Respond(p, Response("deleteCallSchedule", 404,
                     "Call schedule not found or you are not authorized to delete it"))
             /\ UNCHANGED callSchedules
        ELSE /\ callSchedules' = callSchedules \ found
             /\ Respond(p, Response("deleteCallSchedule", 200, "Call schedule deleted successfully"))
  /\ UNCHANGED <<cfg, sessionStore, leads, nextLeadId, nextScheduleId, customers>>

\* -------------------------------------------------------- getCallSchedule
\* Lines 212-246: a read; the response it sends in the current state.
getCallSchedule(userId, id) ==
  LET found == {b \in callSchedules : OwnQuery(b, id, userId)} IN
  IF ~IsValidObjectId(id)
  THEN Response("getCallSchedule", 500, "Internal server error")
  ELSE IF found = {}
  THEN Response("getCallSchedule", 404,
                "Call schedule not found or you are not authorized to view it")
  ELSE [Response("getCallSchedule", 200, "") EXCEPT !.callSchedule = found]

\* ------------------------------------------------------------ updateLead
\* req.body carries an optional status, isActive, callCompleted and
\* callHistory (a set with at most one element stands for an optional value,
\* "" for an absent status).  leadValidation rejects a status outside the
\* enum and looks at no other of these paths; findByIdAndUpdate writes every
\* path of the body that the schema has and runs the schema validators.
LeadBody(status, isActive) ==
  [status |-> status, isActive |-> isActive, callCompleted |-> {}, callHistory |-> {}]

\* The document after { $set: req.body }.
ApplyBody(l, body) ==
  [l EXCEPT !.status = IF body.status # "" THEN body.status ELSE @,
            !.isActive = IF body.isActive # {} THEN TRUE \in body.isActive ELSE @,
            !.callCompleted = IF body.callCompleted # {}
                              THEN TRUE \in body.callCompleted ELSE @,
            !.callHistory = IF body.callHistory # {}
                            THEN CHOOSE h \in body.callHistory : TRUE ELSE @]

updateLead(p, id, body) ==
  /\ pc[p] = "idle"
  /\ LET new == ApplyBody(leads[id], body)
     IN
     IF body.status # "" /\ body.status \notin validStatuses
     THEN Respond(p, Response("updateLead", 400, "Validation errors")) /\ UNCHANGED leads
     ELSE IF ~IsValidObjectId(id)
     THEN Respond(p, Response("updateLead", 500, "Error updating lead")) /\ UNCHANGED leads
     ELSE IF ~LeadExists(id)
     THEN Respond(p, Response("updateLead", 404, "Lead not found")) /\ UNCHANGED leads
     ELSE IF ~ValidLead(new)
     THEN Respond(p, Response("updateLead", 500, "Error updating lead")) /\ UNCHANGED leads
     ELSE /\ leads' = [leads EXCEPT ![id] = new]
          /\ Respond(p, Response("updateLead", 200, "Lead updated successfully"))
  /\ UNCHANGED <<cfg, sessionStore, nextLeadId, callSchedules, nextScheduleId, customers>>

\* -------------------------------------------------------- softDeleteLead
softDeleteLead(p, id) ==
  /\ pc[p] = "idle"
  /\ IF ~IsValidObjectId(id)
     THEN Respond(p, Response("softDeleteLead", 500, "Error deactivating lead"))
          /\ UNCHANGED leads
     ELSE IF ~LeadExists(id)
     THEN Respond(p, Response("softDeleteLead", 404, "Lead not found")) /\ UNCHANGED leads
     ELSE /\ leads' = [leads EXCEPT ![id].isActive = FALSE]
          /\ Respond(p, Response("softDeleteLead", 200, "Lead deactivated successfully"))
  /\ UNCHANGED <<cfg, sessionStore, nextLeadId, callSchedules, nextScheduleId, customers>>

\* ------------------------------------------------------------ deleteLead
deleteLead(p, id) ==
  /\ pc[p] = "idle"
  /\ IF ~IsValidObjectId(id)
     THEN Respond(p, Response("deleteLead", 500, "Error deleting lead")) /\ UNCHANGED leads
     ELSE IF ~LeadExists(id)
     THEN Respond(p, Response("deleteLead", 404, "Lead not found")) /\ UNCHANGED leads
     ELSE /\ leads' = [leads EXCEPT ![id] = GoneLead]
          /\ Respond(p, Response("deleteLead", 200, "Lead deleted successfully"))
  /\ UNCHANGED <<cfg, sessionStore, nextLeadId, callSchedules, nextScheduleId, customers>>

\* ------------------------------------------------------------ lead reads
\* The filter { isActive: true } of getLeads, getLeadStats and exportLeads,
\* narrowed to the caller's own leads for a non-admin.
VisibleQuery_anyLead(l, userId) ==
  /\ l.state = "present"
  /\ (role(userId) # "admin" => l.createdBy = userId)

VisibleQuery(l, userId) ==
  /\ l.state = "present"
  /\ l.isActive
  /\ (role(userId) # "admin" => l.createdBy = userId)

\* The ids of the leads getLeads returns to userId (optionally of one status).
getLeads(userId, status) ==
  {id \in 1..MaxLeads : /\ VisibleQuery(leads[id], userId)
                        /\ (status # "" => leads[id].status = status)}

\* The total of getLeadStats for userId.
getLeadStats(userId) == Cardinality({id \in 1..MaxLeads : VisibleQuery(leads[id], userId)})

\* The rows of exportLeads (an admin route: every active lead).
exportLeads == {id \in 1..MaxLeads : leads[id].state = "present" /\ leads[id].isActive}

\* leadSchema.statics.findByStatus: find({ status, isActive: true })
findByStatus(status) ==
  {id \in 1..MaxLeads : /\ leads[id].state = "present"
                        /\ leads[id].status = status
                        /\ leads[id].isActive}

\* getLead: Lead.findById(req.params.id), the response in the current state.
getLead(id) ==
  IF ~IsValidObjectId(id)
  THEN Response("getLead", 500, "Error fetching lead")
  ELSE IF ~LeadExists(id)
  THEN Response("getLead", 404, "Lead not found")
  ELSE [Response("getLead", 200, "") EXCEPT !.lead = {LeadView(id, leads[id])}]

\* ---------------------------------------------------------- call tracking
\* The clock counts hours; instant 0 is 08:00 on 2024-06-01.  The date and
\* the time of day of an instant, as the strings a booking request carries.
HourStrings ==
  <<"00:00", "01:00", "02:00", "03:00", "04:00", "05:00", "06:00", "07:00",
    "08:00", "09:00", "10:00", "11:00", "12:00", "13:00", "14:00", "15:00",
    "16:00", "17:00", "18:00", "19:00", "20:00", "21:00", "22:00", "23:00">>

toDateString(t) == IF t + 8 < 24 THEN "2024-06-01" ELSE "2024-06-02"

toTimeString(t) == HourStrings[((t + 8) % 24) + 1]

\* The instant of the retry: two hours after t.
retryInstant(t) == t + 2

\* One callHistory element.
HistoryEntry(status, at, userId) ==
  [status |-> status, completedAt |-> at, completedBy |-> userId]

\* The answer of the rescheduler; error names the sub-step that failed.
NotConnectedHandled(p, error, created) ==
  Respond(p, [Response("handleCallNotConnected", 200, "Call marked as not connected")
              EXCEPT !.error = error, !.callSchedule = created])

\* The lead is looked up, the outcome is appended to its history and
\* lastContacted is set, both at the instant the request arrived; the retry
\* is then booked for two hours later through the creation path.
handleCallNotConnected(p, userId, leadId) ==
  /\ pc[p] = "idle"
  /\ LET at == retryInstant(now)
         r == [NoReq EXCEPT !.op = "handleCallNotConnected", !.user = userId,
                            !.leadId = leadId, !.at = now,
                            !.scheduledDate = toDateString(at),
                            !.scheduledTime = toTimeString(at)]
     IN
     IF ~IsValidObjectId(leadId)
     THEN /\ Respond(p, Response("handleCallNotConnected", 400, "Invalid lead ID format"))
          /\ UNCHANGED leads
     ELSE IF ~findActiveLead(leadId)
     THEN /\ Respond(p, Response("handleCallNotConnected", 404, "Lead not found"))
          /\ UNCHANGED leads
     ELSE /\ Len(leads[leadId].callHistory) < MaxHistory
          /\ leads' = [leads EXCEPT
                         ![leadId].lastContacted = {now},
                         ![leadId].callHistory =
                            Append(@, HistoryEntry("not_connected", now, userId))]
          /\ Accept(p, r, "nc_findOne")
          /\ UNCHANGED doc
  /\ UNCHANGED <<cfg, sessionStore, nextLeadId, callSchedules, nextScheduleId, customers>>

\* The conflict pre-check of the creation path.
handleCallNotConnected_findOne(p) ==
  /\ pc[p] = "nc_findOne"
  /\ LET date == NewDate(req[p].scheduledDate)
         found == {b \in callSchedules :
                    existingCallQuery(b, req[p].leadId, date, req[p].scheduledTime)}
     IN
     IF found # {}
     THEN NotConnectedHandled(p, "DUPLICATE_SCHEDULE", {})
     ELSE /\ pc' = [pc EXCEPT ![p] = "nc_save"]
          /\ UNCHANGED <<resp, doc, req>>
  /\ UNCHANGED <<cfg, sessionStore, store>>

\* The insert of the creation path.
handleCallNotConnected_save(p) ==
  /\ pc[p] = "nc_save"
  /\ LET callSchedule == NewCallSchedule(nextScheduleId, req[p].leadId, req[p].user,
                                         req[p].scheduledDate, req[p].scheduledTime, 0)
     IN
     IF ~ValidCallSchedule(callSchedule)
     THEN /\ NotConnectedHandled(p, "SCHEDULE_FAILED", {})
          /\ UNCHANGED <<callSchedules, nextScheduleId>>
     ELSE IF IndexError(callSchedule) = DuplicateKey
     THEN /\ NotConnectedHandled(p, "DUPLICATE_SCHEDULE", {})
          /\ UNCHANGED <<callSchedules, nextScheduleId>>
     ELSE /\ nextScheduleId <= MaxSchedules
          /\ callSchedules' = callSchedules \cup {callSchedule}
          /\ nextScheduleId' = nextScheduleId + 1
          /\ NotConnectedHandled(p, "", {callSchedule})
  /\ UNCHANGED <<cfg, sessionStore, leads, nextLeadId, customers>>

\* The historical booking a completed call leaves, marked Completed.
CompletedCall(id, leadId, userId, at) ==
  [NewCallSchedule(id, leadId, userId, toDateString(at), toTimeString(at), 0)
   EXCEPT !.status = "Completed"]

\* The call-completion paths are set together, one history entry is
\* appended and status is left alone; the historical booking is recorded
\* when the store accepts it.
completeCall(p, userId, leadId) ==
  /\ pc[p] = "idle"
  /\ LET booking == CompletedCall(nextScheduleId, leadId, userId, now)
         record == nextScheduleId <= MaxSchedules /\ IndexError(booking) = 0
     IN
     IF ~IsValidObjectId(leadId)
     THEN /\ Respond(p, Response("completeCall", 400, "Invalid lead ID format"))
          /\ UNCHANGED <<leads, callSchedules, nextScheduleId>>
     ELSE IF ~findActiveLead(leadId)
     THEN /\ Respond(p, Response("completeCall", 404, "Lead not found"))
          /\ UNCHANGED <<leads, callSchedules, nextScheduleId>>
     ELSE /\ Len(leads[leadId].callHistory) < MaxHistory
          /\ leads' = [leads EXCEPT
                         ![leadId].callCompleted = TRUE,
                         ![leadId].callCompletedAt = {now},
                         ![leadId].callCompletedBy = {userId},
                         ![leadId].callHistory =
                            Append(@, HistoryEntry("completed", now, userId))]
          /\ IF record
             THEN /\ callSchedules' = callSchedules \cup {booking}
                  /\ nextScheduleId' = nextScheduleId + 1
             ELSE UNCHANGED <<callSchedules, nextScheduleId>>
          /\ Respond(p, [Response("completeCall", 200, "Call completed successfully")
                         EXCEPT !.lead = {LeadView(leadId, leads'[leadId])}])
  /\ UNCHANGED <<cfg, sessionStore, nextLeadId, customers>>

\* -------------------------------------------------------------- customers
\* customerSchema: email is required and unique.
ValidCustomer(c) == c.email # NoEmail

CustomerIndexError(c) ==
  IF \E o \in customers : o.email = c.email THEN DuplicateKey ELSE 0

findByEmail(email) == {c \in customers : c.email = email}

findByLeadId(leadId) == {c \in customers : c.leadId = leadId}

\* customer.save(): the schema validators run first, then the insert meets
\* the unique index on email.  "" is a save that goes through.
CustomerSaveError_none(c) == ""

CustomerSaveError(c) ==
  IF ~ValidCustomer(c) THEN "ValidationError"
  ELSE IF CustomerIndexError(c) = DuplicateKey THEN "MongoServerError"
  ELSE ""

\* new Customer({...}) as both conversion paths build it: the lead documents
\* of leadSchema have no email path, so lead.email is undefined.
NewCustomer(leadId, userId) ==
  [id |-> Cardinality(customers) + 1, email |-> NoEmail, leadId |-> leadId, userId |-> userId]

\* ------------------------------------------------------ updateLeadStatus
\* Two versions of the handler exist: one filters on isActive and converts
\* nothing, the other (cfg.autoConvert) finds by id alone and converts a
\* lead that becomes Qualified.

\* res.json({ success: true, message: ..., lead })
StatusUpdated(l) ==
  [Response("updateLeadStatus", 200, "Lead status updated successfully") EXCEPT !.lead = l]

SetStatus_reactivating(l, status) == [l EXCEPT !.status = status, !.isActive = TRUE]

\* The update document { status } of findOneAndUpdate / findByIdAndUpdate.
SetStatus(l, status) == [l EXCEPT !.status = status]

InvalidStatus_never(status) == FALSE

\* !validStatuses.includes(status)
InvalidStatus(status) == status \notin validStatuses

updateLeadStatus(p, userId, id, status) ==
  /\ pc[p] = "idle"
  /\ LET r == [NoReq EXCEPT !.op = "updateLeadStatus", !.user = userId,
                            !.leadId = id, !.status = status,
                            !.was = IF LeadExists(id) THEN leads[id].status ELSE ""]
         found == LeadExists(id) /\ (cfg.autoConvert \/ leads[id].isActive)
     IN
     IF InvalidStatus(status)
     THEN /\ Respond(p, Response("updateLeadStatus", 400, "Invalid status"))
          /\ UNCHANGED leads
     ELSE IF ~IsValidObjectId(id)
     THEN /\ Respond(p, Response("updateLeadStatus", 500, "Error updating lead status"))
          /\ UNCHANGED leads
     ELSE IF ~found
     THEN /\ Respond(p, Response("updateLeadStatus", 404, "Lead not found"))
          /\ UNCHANGED leads
     ELSE IF ~ValidLead(SetStatus(leads[id], status))
     THEN /\ Respond(p, Response("updateLeadStatus", 500, "Error updating lead status"))
          /\ UNCHANGED leads
     ELSE /\ leads' = [leads EXCEPT ![id] = SetStatus(@, status)]
          /\ IF cfg.autoConvert /\ status = "Qualified"
             THEN /\ Accept(p, r, "ls_findByEmail")
                  /\ doc' = [doc EXCEPT ![p] = {LeadView(id, leads'[id])}]
             ELSE Respond(p, StatusUpdated({LeadView(id, leads'[id])}))
  /\ UNCHANGED <<cfg, sessionStore, nextLeadId, callSchedules, nextScheduleId, customers>>

\* Customer.findByEmail(lead.email)
updateLeadStatus_findByEmail(p) ==
  /\ pc[p] = "ls_findByEmail"
  /\ IF findByEmail(NoEmail) # {}
     THEN Respond(p, StatusUpdated(doc[p]))
     ELSE pc' = [pc EXCEPT ![p] = "ls_findByLeadId"] /\ UNCHANGED <<resp, doc, req>>
  /\ UNCHANGED <<cfg, sessionStore, store>>

\* Customer.findByLeadId(lead._id)
updateLeadStatus_findByLeadId(p) ==
  /\ pc[p] = "ls_findByLeadId"
  /\ IF findByLeadId(req[p].leadId) # {}
     THEN Respond(p, StatusUpdated(doc[p]))
     ELSE pc' = [pc EXCEPT ![p] = "ls_save"] /\ UNCHANGED <<resp, doc, req>>
  /\ UNCHANGED <<cfg, sessionStore, store>>

updateLeadStatus_save_fatal(p) ==
  /\ pc[p] = "ls_save"
  /\ LET customer == NewCustomer(req[p].leadId, req[p].user) IN
     IF CustomerSaveError(customer) = ""
     THEN /\ Cardinality(customers) < MaxCustomers
          /\ customers' = customers \cup {customer}
          /\ Respond(p, StatusUpdated(doc[p]))
     ELSE /\ UNCHANGED customers
          /\ Respond(p, Response("updateLeadStatus", 500, "Error updating lead status"))
  /\ UNCHANGED <<cfg, sessionStore, leads, nextLeadId, callSchedules, nextScheduleId>>

\* customer.save(); a conversion error is logged and the request succeeds.
updateLeadStatus_save(p) ==
  /\ pc[p] = "ls_save"
  /\ LET customer == NewCustomer(req[p].leadId, req[p].user) IN
     IF CustomerSaveError(customer) = ""
     THEN /\ Cardinality(customers) < MaxCustomers
          /\ customers' = customers \cup {customer}
     ELSE UNCHANGED customers
  /\ Respond(p, StatusUpdated(doc[p]))
  /\ UNCHANGED <<cfg, sessionStore, leads, nextLeadId, callSchedules, nextScheduleId>>

\* -------------------------------------------------- convertLeadToCustomer
\* Lead.findOne({ _id: leadId, userId }): leadSchema has no userId path.
convertLeadToCustomer(p, userId, leadId) ==
  /\ pc[p] = "idle"
  /\ LET r == [NoReq EXCEPT !.op = "convertLeadToCustomer", !.user = userId,
                            !.leadId = leadId]
     IN
     IF ~IsValidObjectId(leadId)
     THEN /\ Respond(p, Response("convertLeadToCustomer", 500,
                                 "Server error while converting lead to customer"))
     ELSE IF ~(LeadExists(leadId) /\ cfg.strictQuery)
     THEN /\ Respond(p, Response("convertLeadToCustomer", 404, "Lead not found"))
     ELSE /\ Accept(p, r, "cv_findByLeadId")
          /\ doc' = [doc EXCEPT ![p] = {leads[leadId]}]
  /\ UNCHANGED <<cfg, sessionStore, store>>

\* Customer.findByLeadId(leadId)
convertLeadToCustomer_findByLeadId(p) ==
  /\ pc[p] = "cv_findByLeadId"
  /\ IF findByLeadId(req[p].leadId) # {}
     THEN Respond(p, Response("convertLeadToCustomer", 400,
                              "Lead has already been converted to customer"))
     ELSE pc' = [pc EXCEPT ![p] = "cv_save"] /\ UNCHANGED <<resp, doc, req>>
  /\ UNCHANGED <<cfg, sessionStore, store>>

\* customer.save(), then lead.status = 'Converted' and lead.save().
convertLeadToCustomer_save(p) ==
  /\ pc[p] = "cv_save"
  /\ LET customer == NewCustomer(req[p].leadId, req[p].user)
         id == req[p].leadId
         err == Response("convertLeadToCustomer", 500,
                         "Server error while converting lead to customer")
     IN
     IF CustomerSaveError(customer) # ""
     THEN Respond(p, err) /\ UNCHANGED <<customers, leads>>
     ELSE /\ Cardinality(customers) < MaxCustomers
          /\ customers' = customers \cup {customer}
          /\ \E lead \in doc[p] :
               LET edited == [lead EXCEPT !.status = "Converted"] IN
               IF ~ValidLead(edited) \/ ~LeadExists(id)
               THEN Respond(p, err) /\ UNCHANGED leads
               ELSE /\ leads' = [leads EXCEPT ![id].status = edited.status]
                    /\ Respond(p, Response("convertLeadToCustomer", 201,
                                  "Lead successfully converted to customer"))
  /\ UNCHANGED <<cfg, sessionStore, nextLeadId, callSchedules, nextScheduleId>>

\* --------------------------------------------------------------- sessions
\* A path that holds null is an empty set, a path that holds a value is the
\* set of that value.

\* new Session({ userId, loginTime: new Date(), ... }) with the schema
\* defaults logoutTime: null, duration: null, isActive: true.
NewSession(id, userId) ==
  [id |-> id, userId |-> userId, loginTime |-> now, logoutTime |-> {},
   duration |-> {}, isActive |-> TRUE]

\* Session.updateMany({ userId, isActive: true },
\*                    { logoutTime: new Date(), isActive: false })
endActiveSessions(userId) ==
  {IF s.userId = userId /\ s.isActive
   THEN [s EXCEPT !.logoutTime = {now}, !.isActive = FALSE]
   ELSE s : s \in sessions}

\* Session.findOne({ userId, isActive: true })
getCurrentSession(userId) == {s \in sessions : s.userId = userId /\ s.isActive}

\* this.duration = logoutTime - loginTime, when both are set
calculateDuration(s) ==
  IF s.logoutTime # {}
  THEN [s EXCEPT !.duration = {t - s.loginTime : t \in s.logoutTime}]
  ELSE s

\* sessionSchema.methods.endSession up to the save
EndedSession(s) == calculateDuration([s EXCEPT !.logoutTime = {now}, !.isActive = FALSE])

\* session.save() of the edited document: the modified paths logoutTime,
\* isActive and duration are written onto the stored document.
SaveSession(edited) ==
  {IF s.id = edited.id
   THEN [s EXCEPT !.logoutTime = edited.logoutTime, !.isActive = edited.isActive,
                  !.duration = edited.duration]
   ELSE s : s \in sessions}

\* Time passes.
Tick ==
  /\ now < MaxTime
  /\ now' = now + 1
  /\ UNCHANGED <<cfg, store, sessions, nextSessionId, pc, req, doc, resp>>

\* The insert of a new active session, shared by login and createSession.
InsertSession(userId) ==
  /\ nextSessionId <= MaxSessions
  /\ sessions' = sessions \cup {NewSession(nextSessionId, userId)}
  /\ nextSessionId' = nextSessionId + 1

\* ------------------------------------------------------------------ login
\* The user exists and is active; isMatch is the outcome of comparePassword.
login(p, userId, isMatch) ==
  /\ pc[p] = "idle"
  /\ IF ~isMatch
     THEN Respond(p, Response("login", 400, "Incorrect password. Please try again."))
     ELSE /\ Accept(p, [NoReq EXCEPT !.op = "login", !.user = userId], "lg_updateMany")
          /\ UNCHANGED doc
  /\ UNCHANGED <<cfg, store, sessionStore>>

login_updateMany(p) ==
  /\ pc[p] = "lg_updateMany"
  /\ sessions' = endActiveSessions(req[p].user)
  /\ pc' = [pc EXCEPT ![p] = "lg_save"]
  /\ UNCHANGED <<cfg, store, nextSessionId, now, req, doc, resp>>

login_save(p) ==
  /\ pc[p] = "lg_save"
  /\ InsertSession(req[p].user)
  /\ Respond(p, Response("login", 200, "Login successful"))
  /\ UNCHANGED <<cfg, store, now>>

\* ---------------------------------------------------------- createSession
\* mongoose.Types.ObjectId(userId) is called without new: where ObjectId is
\* a class the call throws before any store access and the catch answers 500.
createSession(p, userId) ==
  /\ pc[p] = "idle"
  /\ IF ~cfg.callableObjectId
     THEN Respond(p, Response("createSession", 500, "Failed to create session"))
     ELSE /\ Accept(p, [NoReq EXCEPT !.op = "createSession", !.user = userId], "ss_updateMany")
          /\ UNCHANGED doc
  /\ UNCHANGED <<cfg, store, sessionStore>>

createSession_updateMany(p) ==
  /\ pc[p] = "ss_updateMany"
  /\ sessions' = endActiveSessions(req[p].user)
  /\ pc' = [pc EXCEPT ![p] = "ss_save"]
  /\ UNCHANGED <<cfg, store, nextSessionId, now, req, doc, resp>>

createSession_save(p) ==
  /\ pc[p] = "ss_save"
  /\ InsertSession(req[p].user)
  /\ Respond(p, Response("createSession", 201, ""))
  /\ UNCHANGED <<cfg, store, now>>

\* ------------------------------------------------------------- endSession
endSession(p, userId) ==
  /\ pc[p] = "idle"
  /\ IF getCurrentSession(userId) = {}
     THEN Respond(p, Response("endSession", 404, "No active session found"))
     ELSE \E session \in getCurrentSession(userId) :
            /\ Accept(p, [NoReq EXCEPT !.op = "endSession", !.user = userId], "es_save")
            /\ doc' = [doc EXCEPT ![p] = {session}]
  /\ UNCHANGED <<cfg, store, sessionStore>>

endSession_save(p) ==
  /\ pc[p] = "es_save"
  /\ \E session \in doc[p] : sessions' = SaveSession(EndedSession(session))
  /\ Respond(p, Response("endSession", 200, ""))
  /\ UNCHANGED <<cfg, store, nextSessionId, now>>

\* ----------------------------------------------------------------- logout
logout(p, userId) ==
  /\ pc[p] = "idle"
  /\ IF getCurrentSession(userId) = {}
     THEN Respond(p, Response("logout", 200, "Logged out successfully"))
     ELSE \E session \in getCurrentSession(userId) :
            /\ Accept(p, [NoReq EXCEPT !.op = "logout", !.user = userId], "lo_save")
            /\ doc' = [doc EXCEPT ![p] = {session}]
  /\ UNCHANGED <<cfg, store, sessionStore>>

logout_save(p) ==
  /\ pc[p] = "lo_save"
  /\ \E session \in doc[p] :
       sessions' = SaveSession([session EXCEPT !.logoutTime = {now}, !.isActive = FALSE,
                                               !.duration = {now - session.loginTime}])
  /\ Respond(p, Response("logout", 200, "Logged out successfully"))
  /\ UNCHANGED <<cfg, store, nextSessionId, now>>

\* ------------------------------------------------------ specifications
Times == {"10:00", ""}
UpdateStatuses == {"", "Scheduled", "Completed", "Cancelled", "No Show", "Pending"}
Durations == {0, 5, 45}

\* The request bodies of updateCallSchedule: any one field alone, nothing at
\* all, or a new date together with a status.
UpdateBodies(D, Dur, St) ==
  {b \in [scheduledDate : D \cup {""}, scheduledTime : Times,
          duration : Dur \cup {0}, status : St \cup {""}] :
     \/ Cardinality({f \in {"d", "t", "n", "s"} :
                       \/ f = "d" /\ b.scheduledDate # ""
                       \/ f = "t" /\ b.scheduledTime # ""
                       \/ f = "n" /\ b.duration # 0
                       \/ f = "s" /\ b.status # ""}) <= 1
     \/ b.scheduledDate # "" /\ b.status # "" /\ b.scheduledTime = "" /\ b.duration = 0}

\* The call-schedule specifications import the first lead only; every other
\* lead id a request names is the id of a lead that was never stored.
BookedLeads == {1}

\* Call scheduling by the request slots P on behalf of the users U, with
\* dates from D, durations from Dur and update statuses from St, next to the
\* lead operations that decide whether a lead can be booked.
CallsNext(P, U, D, Dur, St) ==
  \/ \E u \in U : nextLeadId \in BookedLeads /\ uploadLeads(u, "New")
  \/ \E p \in P, id \in 1..MaxLeads : softDeleteLead(p, id)
  \/ \E p \in P, id \in 1..MaxLeads : deleteLead(p, id)
  \/ \E p \in P, u \in U, leadId \in 0..MaxLeads, d \in D, t \in Times, n \in Dur :
       createCallSchedule(p, u, leadId, d, t, n)
  \/ \E p \in P : createCallSchedule_findOne(p)
  \/ \E p \in P : createCallSchedule_save(p)
  \/ \E p \in P, u \in U, id \in 0..MaxSchedules, b \in UpdateBodies(D, Dur, St) :
       updateCallSchedule(p, u, id, b.scheduledDate, b.scheduledTime, b.duration, b.status)
  \/ \E p \in P : updateCallSchedule_save(p)
  \/ \E p \in P, u \in U, id \in 0..MaxSchedules : deleteCallSchedule(p, u, id)

\* The specifications about call schedules run the handler version of
\* updateLeadStatus that they never call in one variant only.
InitCalls == Init /\ ~cfg.autoConvert /\ ~cfg.callableObjectId

\* One request at a time: slots, statuses and lead state.
SlotsNext == CallsNext({1}, {"ann"}, DateStrings, {0}, UpdateStatuses)

SpecSlots == InitCalls /\ [][SlotsNext]_vars

\* One request at a time: owners and durations on a single date.
FieldsNext ==
  CallsNext({1}, {"ann", "root"}, {"2024-06-01", "2024-06-01T00:00:00.000Z"}, Durations, {})

SpecFields == InitCalls /\ [][FieldsNext]_vars

\* Two createCallSchedule requests in flight at once.
RaceNext ==
  \/ \E u \in {"ann"} : nextLeadId \in BookedLeads /\ uploadLeads(u, "New")
  \/ \E p \in Procs, leadId \in 1..MaxLeads, d \in DateStrings, t \in Times :
       createCallSchedule(p, "ann", leadId, d, t, 0)
  \/ \E p \in Procs : createCallSchedule_findOne(p)
  \/ \E p \in Procs : createCallSchedule_save(p)

SpecRace == InitCalls /\ [][RaceNext]_vars

\* Lead operations and both conversion paths, by the request slots P.
LeadOpsNext(P) ==
  \/ \E u \in {"ann", "root"}, st \in validStatuses \cup {"Converted"} : uploadLeads(u, st)
  \/ \E p \in P, id \in 0..MaxLeads, st \in validStatuses \cup {"", "Converted"},
        a \in {{}, {TRUE}, {FALSE}} : updateLead(p, id, LeadBody(st, a))
  \/ \E p \in P, u \in {"ann"}, id \in 0..MaxLeads, st \in validStatuses \cup {"Converted"} :
       updateLeadStatus(p, u, id, st)
  \/ \E p \in P : updateLeadStatus_findByEmail(p)
  \/ \E p \in P : updateLeadStatus_findByLeadId(p)
  \/ \E p \in P : updateLeadStatus_save(p)
  \/ \E p \in P, id \in 0..MaxLeads : softDeleteLead(p, id)
  \/ \E p \in P, id \in 0..MaxLeads : deleteLead(p, id)
  \/ \E p \in P, u \in {"ann"}, id \in 1..MaxLeads : convertLeadToCustomer(p, u, id)
  \/ \E p \in P : convertLeadToCustomer_findByLeadId(p)
  \/ \E p \in P : convertLeadToCustomer_save(p)

LeadsNext == LeadOpsNext({1})

SpecLeads == Init /\ [][LeadsNext]_vars

\* Repeated qualification: leads are imported as New and the only status
\* operation is updateLeadStatus to Qualified, so a lead is Qualified only
\* by an earlier such call.
QualifyNext ==
  \/ \E u \in {"ann", "root"} : uploadLeads(u, "New")
  \/ \E u \in {"ann", "root"}, id \in 0..MaxLeads : updateLeadStatus(1, u, id, "Qualified")
  \/ updateLeadStatus_findByEmail(1)
  \/ updateLeadStatus_findByLeadId(1)
  \/ updateLeadStatus_save(1)
  \/ \E id \in 0..MaxLeads : softDeleteLead(1, id)
  \/ \E id \in 0..MaxLeads : deleteLead(1, id)

SpecQualify == Init /\ [][QualifyNext]_vars

\* Both conversion paths, run concurrently by two requests.
ConvertNext ==
  \/ \E u \in {"ann"} : uploadLeads(u, "New")
  \/ \E p \in Procs, u \in {"ann", "bob"}, id \in 1..MaxLeads :
       updateLeadStatus(p, u, id, "Qualified")
  \/ \E p \in Procs : updateLeadStatus_findByEmail(p)
  \/ \E p \in Procs : updateLeadStatus_findByLeadId(p)
  \/ \E p \in Procs : updateLeadStatus_save(p)
  \/ \E p \in Procs, u \in {"ann", "bob"}, id \in 1..MaxLeads :
       convertLeadToCustomer(p, u, id)
  \/ \E p \in Procs : convertLeadToCustomer_findByLeadId(p)
  \/ \E p \in Procs : convertLeadToCustomer_save(p)

SpecConvert == Init /\ [][ConvertNext]_vars

\* Call tracking: the rescheduler, call completion and the lead operations
\* that can touch the call-tracking paths, one request at a time.
TrackingBodies ==
  {[status |-> "", isActive |-> {}, callCompleted |-> c, callHistory |-> h] :
     c \in {{}, {TRUE}}, h \in {{}, {<<>>}}}

TrackingNext ==
  \/ nextLeadId \in BookedLeads /\ uploadLeads("ann", "New")
  \/ Tick
  \/ \E id \in 0..MaxLeads : handleCallNotConnected(1, "ann", id)
  \/ handleCallNotConnected_findOne(1)
  \/ handleCallNotConnected_save(1)
  \/ \E id \in 0..MaxLeads : completeCall(1, "ann", id)
  \/ \E id \in 0..MaxLeads, body \in TrackingBodies : updateLead(1, id, body)
  \/ \E id \in 0..MaxLeads : updateLeadStatus(1, "ann", id, "Closed")
  \/ \E id \in 0..MaxLeads : softDeleteLead(1, id)

InitTracking == Init /\ ~cfg.autoConvert /\ ~cfg.callableObjectId

SpecTracking == InitTracking /\ [][TrackingNext]_vars

\* Status transitions of leads that carry call-tracking data and bookings,
\* in both versions of updateLeadStatus.
StatusNext ==
  \/ nextLeadId \in BookedLeads /\ uploadLeads("ann", "New")
  \/ \E id \in 1..MaxLeads : handleCallNotConnected(1, "ann", id)
  \/ handleCallNotConnected_findOne(1)
  \/ handleCallNotConnected_save(1)
  \/ \E id \in 1..MaxLeads : completeCall(1, "ann", id)
  \/ \E id \in 0..MaxLeads, st \in {"Qualified", "Closed", "Converted"} :
       updateLeadStatus(1, "ann", id, st)
  \/ updateLeadStatus_findByEmail(1)
  \/ updateLeadStatus_findByLeadId(1)
  \/ updateLeadStatus_save(1)
  \/ \E id \in 1..MaxLeads : softDeleteLead(1, id)

InitStatus == Init /\ cfg.uniqueIndex /\ cfg.strictQuery /\ ~cfg.callableObjectId

SpecStatus == InitStatus /\ [][StatusNext]_vars

\* Session operations by the request slots P for the principals U.
SessionOpsNext(P, U) ==
  \/ Tick
  \/ \E p \in P, u \in U, m \in BOOLEAN : login(p, u, m)
  \/ \E p \in P : login_updateMany(p)
  \/ \E p \in P : login_save(p)
  \/ \E p \in P, u \in U : createSession(p, u)
  \/ \E p \in P : createSession_updateMany(p)
  \/ \E p \in P : createSession_save(p)
  \/ \E p \in P, u \in U : endSession(p, u)
  \/ \E p \in P : endSession_save(p)
  \/ \E p \in P, u \in U : logout(p, u)
  \/ \E p \in P : logout_save(p)

\* The session specifications fix the variants that session code never
\* meets.
InitSessions == Init /\ cfg.uniqueIndex /\ cfg.strictQuery /\ ~cfg.autoConvert

\* One request at a time, two principals.
SessionsNext == SessionOpsNext({1}, {"ann", "bob"})

SpecSessions == InitSessions /\ [][SessionsNext]_vars

\* Two concurrent requests of one principal.
SessionRaceNext == SessionOpsNext(Procs, {"ann"})

SpecSessionRace == InitSessions /\ [][SessionRaceNext]_vars

\* ------------------------------------------------------------ properties
SameSlot(a, b) ==
  /\ a.leadId = b.leadId
  /\ a.scheduledDate = b.scheduledDate
  /\ a.scheduledTime = b.scheduledTime

ConflictMessage == "A call is already scheduled for this lead at this time"

\* The bookings on the slot that the createCallSchedule request of p names.
OnSlot(p) ==
  {b \in callSchedules : /\ b.leadId = req[p].leadId
                         /\ b.scheduledDate = NewDate(req[p].scheduledDate)
                         /\ b.scheduledTime = req[p].scheduledTime}

\* The step ends the createCallSchedule request of p.
CreateEnds(p) == pc[p] \in {"cs_findOne", "cs_save"} /\ pc'[p] = "idle"

\* C1: of two createCallSchedule requests for one (lead, date, time) that
\* run concurrently, only one succeeds: two request slots never both hold a
\* 201 response for the same triple, and the store never holds two Scheduled
\* bookings for one triple.
C1_OneWinnerPerSlot ==
  /\ \A p, q \in Procs :
       (p # q /\ resp[p].code = 201 /\ resp[q].code = 201)
         => \A a \in resp[p].callSchedule, b \in resp[q].callSchedule : ~SameSlot(a, b)
  /\ \A a, b \in callSchedules :
       (a.status = "Scheduled" /\ b.status = "Scheduled" /\ SameSlot(a, b)) => a.id = b.id

\* C2: in every reachable state at most one Scheduled booking exists for a
\* (leadId, scheduledDate, scheduledTime) triple, whatever createCallSchedule,
\* updateCallSchedule and deleteCallSchedule calls came before.
C2_AtMostOneScheduledPerSlot ==
  \A a \in callSchedules : a.status = "Scheduled" =>
    Cardinality({b \in callSchedules : b.status = "Scheduled" /\ SameSlot(a, b)}) = 1

\* C3: every Conflict response of createCallSchedule has the shape the
\* pre-check path sends (the blocking booking, no error tag), so the path
\* that rejected the request cannot be told from the response.
C3_ConflictShapeOfPreCheck ==
  \A p \in Procs :
    (resp[p].op = "createCallSchedule" /\ resp[p].code = 400
       /\ resp[p].message = ConflictMessage)
      => (resp[p].error = "" /\ resp[p].existingCall # {})

\* C4: a createCallSchedule request for a triple on which a Scheduled booking
\* A exists ends with a Conflict response that identifies A (id, date, time,
\* status) and inserts nothing.
C4_SequentialConflictIdentifiesBlocker ==
  [][\A p \in Procs :
       (CreateEnds(p) /\ \E a \in OnSlot(p) : a.status = "Scheduled")
         => /\ resp'[p].code = 400
            /\ resp'[p].message = ConflictMessage
            /\ \E a \in OnSlot(p) :
                 /\ a.status = "Scheduled"
                 /\ resp'[p].existingCall =
                      {[id |-> a.id, scheduledDate |-> a.scheduledDate,
                        scheduledTime |-> a.scheduledTime, status |-> a.status]}
            /\ callSchedules' = callSchedules]_vars

\* A createCallSchedule request of p whose slot holds only bookings with a
\* status in S is not rejected: the pre-check lets it pass and a valid
\* document is inserted as Scheduled with a 201 response.
NotBlockedBy(S) ==
  \A p \in Procs :
    (OnSlot(p) # {} /\ \A b \in OnSlot(p) : b.status \in S) =>
      /\ (pc[p] = "cs_findOne" /\ pc'[p] # "cs_findOne")
           => pc'[p] = "cs_save"
      /\ (pc[p] = "cs_save" /\ pc'[p] # "cs_save")
           => /\ resp'[p].code = 201
              /\ \E c \in callSchedules' \ callSchedules :
                   c.status = "Scheduled" /\ \A b \in OnSlot(p) : SameSlot(b, c)

\* C5 (as claimed): bookings that are Completed do not block a new booking
\* for their triple.
C5_CompletedDoesNotBlock == [][NotBlockedBy({"Completed"})]_vars

\* C5 (amended): bookings that are Cancelled or No Show do not block a new
\* booking for their triple; it is created with status Scheduled.
C5_CancelledOrNoShowDoesNotBlock == [][NotBlockedBy({"Cancelled", "No Show"})]_vars

C5_Witness ==
  \E p \in Procs : \E c \in resp[p].callSchedule :
    /\ resp[p].code = 201
    /\ c \in callSchedules
    /\ \E b \in callSchedules : SameSlot(b, c) /\ b.status \in {"Cancelled", "No Show"}

\* C6: a booking that is Completed, Cancelled or No Show never changes its
\* status again.
C6_TerminalStatusIsFinal ==
  [][\A b \in callSchedules : \A c \in callSchedules' :
       (b.id = c.id /\ b.status # "Scheduled") => c.status = b.status]_vars

\* C7: a createCallSchedule request naming a lead that does not exist or is
\* inactive is answered 404, inserts no booking and modifies no lead.
C7_MissingLeadNotFound ==
  [][\A p \in Procs, l \in 1..MaxLeads :
       (/\ pc[p] = "idle"
        /\ ~(leads[l].state = "present" /\ leads[l].isActive)
        /\ (resp'[p].op = "createCallSchedule" \/ req'[p].op = "createCallSchedule")
        /\ \E u \in Users, d \in DateStrings, t \in Times, n \in Durations :
             createCallSchedule(p, u, l, d, t, n))
         => /\ resp'[p].code = 404
            /\ pc'[p] = "idle"
            /\ callSchedules' = callSchedules
            /\ leads' = leads]_vars

C7_Witness ==
  \E p \in Procs, l \in 1..MaxLeads :
    /\ resp[p].op = "createCallSchedule"
    /\ resp[p].code = 404
    /\ leads[l].state = "present"
    /\ ~leads[l].isActive
    /\ \A i \in 1..MaxLeads : i # l => leads[i].state # "present"

\* C8: every stored booking has a duration within 15..480 minutes.
C8_DurationInRange ==
  \A b \in callSchedules : b.duration >= MinDuration /\ b.duration <= MaxDuration

\* C9: when createCallSchedule succeeds, reading the booking back as its
\* owner yields status Scheduled, reminderSent false, scheduledBy the owner
\* and the requested lead, date, time and duration (30 when none was given).
C9_CreateThenReadBack ==
  [][\A p \in Procs, u \in Users :
       (pc[p] = "cs_save" /\ pc'[p] = "idle" /\ resp'[p].code = 201 /\ req[p].user = u)
         => \E c \in resp'[p].callSchedule : \E id \in {c.id} :
              /\ getCallSchedule(u, id)'.code = 200
              /\ \A g \in getCallSchedule(u, id)'.callSchedule :
                   /\ g.status = "Scheduled"
                   /\ g.reminderSent = FALSE
                   /\ g.scheduledBy = u
                   /\ g.leadId = req[p].leadId
                   /\ g.scheduledTime = req[p].scheduledTime
                   /\ (req[p].scheduledDate \in {"2024-06-01", "2024-06-01T00:00:00.000Z"}
                         => g.scheduledDate = 20240601)
                   /\ (req[p].scheduledDate = "2024-06-02" => g.scheduledDate = 20240602)
                   /\ g.duration = IF req[p].duration = 0 THEN 30 ELSE req[p].duration]_vars

C9_Witness ==
  \E p \in Procs : \E c \in resp[p].callSchedule :
    /\ resp[p].code = 201
    /\ c.duration = 45
    /\ c.scheduledBy = "root"
    /\ getCallSchedule("root", c.id).callSchedule = {c}

ActiveLead(id) == leads[id].state = "present" /\ leads[id].isActive

\* The customers linked to lead id (convertedFrom.leadId = id).
LinkedTo(id) == {c \in customers : c.leadId = id}

\* The step ends an updateLeadStatus request of p for lead id, which had
\* the status was when the request arrived, asking for the status st.
StatusRequestEnds(p, id, was, st) ==
  \/ /\ pc[p] = "idle"
     /\ pc'[p] = "idle"
     /\ leads[id].state = "present"
     /\ leads[id].status = was
     /\ resp'[p].op = "updateLeadStatus"
     /\ \E u \in Users : updateLeadStatus(p, u, id, st)
  \/ /\ pc[p] \in {"ls_findByEmail", "ls_findByLeadId", "ls_save"}
     /\ pc'[p] = "idle"
     /\ req[p].leadId = id
     /\ req[p].was = was
     /\ req[p].status = st

\* C11: updateLeadStatus for a lead id that is not stored, or whose lead is
\* inactive, is answered 404 at once, changes no lead and creates no
\* customer.
C11_MissingOrInactiveLeadNotFound ==
  [][\A p \in Procs, id \in 1..MaxLeads :
       (/\ pc[p] = "idle"
        /\ ~ActiveLead(id)
        /\ (resp'[p].op = "updateLeadStatus" \/ req'[p].op = "updateLeadStatus")
        /\ \E u \in Users, st \in validStatuses : updateLeadStatus(p, u, id, st))
         => /\ resp'[p].code = 404
            /\ pc'[p] = "idle"
            /\ leads' = leads
            /\ customers' = customers]_vars

\* C12: updateLeadStatus with a status outside the five enum values is
\* answered 400 at once, whatever the id: no lead changes and no customer
\* is created.
C12_InvalidStatusRejected ==
  [][\A p \in Procs :
       (/\ pc[p] = "idle"
        /\ (resp'[p].op = "updateLeadStatus" \/ req'[p].op = "updateLeadStatus")
        /\ \E u \in Users, id \in 0..MaxLeads : updateLeadStatus(p, u, id, "Converted"))
         => /\ resp'[p].code = 400
            /\ pc'[p] = "idle"
            /\ leads' = leads
            /\ customers' = customers]_vars

C12_Witness ==
  \E p \in Procs, i \in 1..MaxLeads :
    /\ resp[p].op = "updateLeadStatus"
    /\ resp[p].code = 400
    /\ ActiveLead(i)
    /\ leads[i].status = "Negotiation"

\* C13: when an updateLeadStatus request that moves an active lead from New
\* to Qualified ends, the lead is Qualified and exactly one customer is
\* linked to it.
C13_QualifiedCreatesOneCustomer ==
  [][\A p \in Procs, id \in 1..MaxLeads :
       (StatusRequestEnds(p, id, "New", "Qualified") /\ ActiveLead(id))
         => /\ leads'[id].status = "Qualified"
            /\ Cardinality(LinkedTo(id)') = 1]_vars

\* C14: when a second updateLeadStatus request to Qualified for the same
\* lead ends, it has created no customer, it reports success with the lead
\* Qualified, and exactly one customer is linked to the lead.
C14_SecondQualifyLeavesOneCustomer ==
  [][\A p \in Procs, id \in 1..MaxLeads :
       (StatusRequestEnds(p, id, "Qualified", "Qualified") /\ ActiveLead(id))
         => /\ customers' = customers
            /\ resp'[p].code = 200
            /\ \A l \in resp'[p].lead : l.status = "Qualified"
            /\ Cardinality(LinkedTo(id)') = 1]_vars

C17_ConversionFailureNotFatal ==
  [][\A p \in Procs :
       (/\ pc[p] = "ls_save"
        /\ pc'[p] = "idle"
        /\ CustomerSaveError(NewCustomer(req[p].leadId, req[p].user)) # "")
         => /\ resp'[p].op = "updateLeadStatus"
            /\ resp'[p].code = 200
            /\ resp'[p].lead = doc[p]
            /\ \A l \in doc[p] : l.status = "Qualified" /\ l.id = req[p].leadId
            /\ leads' = leads
            /\ leads'[req[p].leadId].status = "Qualified"]_vars

C17_Witness ==
  \E p \in Procs, i \in 1..MaxLeads :
    /\ cfg.autoConvert
    /\ resp[p].op = "updateLeadStatus"
    /\ resp[p].code = 200
    /\ resp[p].lead = {LeadView(i, leads[i])}
    /\ leads[i].state = "present"
    /\ leads[i].status = "Qualified"
    /\ LinkedTo(i) = {}

\* The active sessions of a principal.
ActiveSessions(u) == {s \in sessions : s.userId = u /\ s.isActive}

\* The session was ended with an end time and the duration that goes with it.
EndedWithDuration(s) ==
  /\ ~s.isActive
  /\ s.logoutTime # {}
  /\ s.duration = {t - s.loginTime : t \in s.logoutTime}

\* C18: no principal ever has two active sessions, in any state that
\* concurrent login / createSession requests pass through.
C18_AtMostOneActiveSession ==
  \A u \in Users : Cardinality(ActiveSessions(u)) <= 1

\* C19: a login or createSession request of a principal that has an active
\* session S1 leaves S1 inactive with an end time and the duration
\* logoutTime - loginTime, and ends with a new active session S2 of the
\* principal.
C19_ReplacementEndsOldSession ==
  [][\A p \in Procs :
       /\ (pc[p] \in {"lg_updateMany", "ss_updateMany"} /\ pc'[p] # pc[p])
            => \A s1 \in ActiveSessions(req[p].user) :
                 \E e \in sessions' : e.id = s1.id /\ EndedWithDuration(e)
       /\ (pc[p] \in {"lg_save", "ss_save"} /\ pc'[p] = "idle")
            => \E s2 \in sessions' \ sessions :
                 s2.userId = req[p].user /\ s2.isActive]_vars

\* C20: every inactive session has an end time and the stored duration
\* logoutTime - loginTime, and every active session has no end time.
C20_DurationAccounting ==
  \A s \in sessions :
    /\ ~s.isActive => EndedWithDuration(s)
    /\ s.isActive => s.logoutTime = {}

\* ------------------------------------------------------------ call tracking
\* The instant a booking's date and time of day denote, on the clock of the
\* model (hours since 08:00 on 2024-06-01).
HourOf(time) == CHOOSE h \in 0..23 : HourStrings[h + 1] = time

InstantOf(b) == (b.scheduledDate - 20240601) * 24 + HourOf(b.scheduledTime) - 8

RetryArrives(p) == pc[p] = "idle" /\ pc'[p] = "nc_findOne"

RetryEnds(p) == pc[p] \in {"nc_findOne", "nc_save"} /\ pc'[p] = "idle"

\* No booking of the request's lead holds the slot two hours after arrival.
RetrySlotFree(p) ==
  ~\E b \in callSchedules :
     /\ b.leadId = req[p].leadId
     /\ b.scheduledTime \in {HourStrings[h] : h \in 1..24}
     /\ InstantOf(b) = req[p].at + 2

HoldingSlot(S, L, t) ==
  {b \in S : /\ b.leadId = L
             /\ b.scheduledTime \in {HourStrings[h] : h \in 1..24}
             /\ InstantOf(b) = t}

LastEntry(l) == l.callHistory[Len(l.callHistory)]

C23_CompletedHasStamp ==
  \A id \in 1..MaxLeads :
    (leads[id].state = "present" /\ leads[id].callCompleted) =>
      /\ leads[id].callCompletedAt # {}
      /\ leads[id].callCompletedBy # {}

\* h is an initial segment of g.
IsPrefix(h, g) == Len(h) <= Len(g) /\ \A i \in 1..Len(h) : g[i] = h[i]

\* C24: call history is append-only: across every step the history a lead
\* had is an initial segment of the history it has afterwards.
C24_HistoryAppendOnly ==
  [][\A id \in 1..MaxLeads :
       (leads[id].state = "present" /\ leads'[id].state = "present") =>
         IsPrefix(leads[id].callHistory, leads'[id].callHistory)]_vars

\* ------------------------------------------------------------ soft delete
SoftDeleted(id) == leads[id].state = "present" /\ ~leads[id].isActive

C26_SoftDeletedLooksMissing ==
  \A id \in 1..MaxLeads :
    SoftDeleted(id) => getLead(id) = Response("getLead", 404, "Lead not found")

\* ------------------------------------------------------------ hard delete
\* C27: every booking refers to a stored lead: once deleteLead has removed
\* a lead, no booking with that leadId remains.
C27_BookingsReferToLeads ==
  \A b \in callSchedules : LeadExists(b.leadId)

\* ------------------------------------------------------- status frame
\* A step of an updateLeadStatus request served by p.
StatusStep(p) ==
  \/ /\ pc[p] = "idle"
     /\ pc'[p] = "ls_findByEmail" \/ resp'[p].op = "updateLeadStatus"
     /\ now' = now
     /\ nextLeadId' = nextLeadId
     /\ \E u \in Users, id \in 0..MaxLeads, st \in validStatuses \cup {"Converted"} :
          updateLeadStatus(p, u, id, st)
  \/ pc[p] = "ls_findByEmail" /\ updateLeadStatus_findByEmail(p)
  \/ pc[p] = "ls_findByLeadId" /\ updateLeadStatus_findByLeadId(p)
  \/ pc[p] = "ls_save" /\ updateLeadStatus_save(p)

\* C28: a status transition changes nothing of a lead but its status:
\* callHistory, the call-completion paths, lastContacted and isActive keep
\* their values, no lead appears or disappears, no booking is created or
\* modified, and at most one Customer is created.
C28_StatusChangeFrame ==
  [][\A p \in Procs :
       StatusStep(p) =>
         /\ \A id \in 1..MaxLeads : leads'[id] = [leads[id] EXCEPT !.status = leads'[id].status]
         /\ callSchedules' = callSchedules
         /\ nextScheduleId' = nextScheduleId
         /\ customers \subseteq customers'
         /\ Cardinality(customers' \ customers) <= 1]_vars

C28_Witness ==
  \E p \in Procs, id \in 1..MaxLeads :
    /\ resp[p].op = "updateLeadStatus"
    /\ resp[p].code = 200
    /\ resp[p].lead = {LeadView(id, leads[id])}
    /\ leads[id].status = "Qualified"
    /\ leads[id].callCompleted
    /\ leads[id].lastContacted # {}
    /\ Len(leads[id].callHistory) = 2
    /\ callSchedules # {}

\* -------------------------------------------------------------- ownership
\* userId is neither an admin nor the user who scheduled b.
Stranger(userId, b) == role(userId) # "admin" /\ userId # b.scheduledBy

NotFound(r) == r.code = 404 /\ r.callSchedule = {}

\* C29: for a booking scheduled by another user a non-admin gets not-found
\* from getCallSchedule, updateCallSchedule and deleteCallSchedule and the
\* booking stays as it is; deleteCallSchedule by the owner or an admin
\* removes exactly that booking and changes no lead, customer or other
\* booking.
C29_OnlyOwnerOrAdmin ==
  /\ [](\A b \in callSchedules, u \in Users :
          Stranger(u, b) => NotFound(getCallSchedule(u, b.id)))
  /\ [][\A p \in Procs :
          /\ ( /\ pc[p] = "idle"
               /\ pc'[p] = "us_save" \/ resp'[p].op = "updateCallSchedule" )
             => \A b \in callSchedules, u \in Users :
                  ( /\ Stranger(u, b)
                    /\ updateCallSchedule(p, u, b.id, req'[p].scheduledDate,
                                          req'[p].scheduledTime, req'[p].duration,
                                          req'[p].status) )
                  => (NotFound(resp'[p]) /\ pc'[p] = "idle" /\ callSchedules' = callSchedules)
          /\ ( /\ pc[p] = "idle"
               /\ pc'[p] = "idle"
               /\ resp'[p].op = "deleteCallSchedule" )
             => \A b \in callSchedules, u \in Users :
                  deleteCallSchedule(p, u, b.id) =>
                    IF Stranger(u, b)
                    THEN NotFound(resp'[p]) /\ callSchedules' = callSchedules
                    ELSE /\ resp'[p].code = 200
                         /\ callSchedules' = callSchedules \ {b}
                         /\ leads' = leads
                         /\ customers' = customers]_vars

C29_Witness ==
  \E p \in Procs :
    /\ resp[p].op = "deleteCallSchedule"
    /\ resp[p].code = 404
    /\ nextScheduleId = MaxSchedules + 1
    /\ \A id \in 1..MaxSchedules :
         \E b \in callSchedules : b.id = id /\ b.scheduledBy = "root"

\* ------------------------------------------------------ manual conversion
ConversionEnds(p) == pc[p] \in {"cv_findByLeadId", "cv_save"} /\ pc'[p] = "idle"

====
